---------------------------- MODULE Spec2Model ----------------------------
(***************************************************************************)
(* The Docker Hub catalogue aggregation of docker-app-store-backend:       *)
(* GET /api/apps -> AppRepository.findAll -> DockerRegistryClient.         *)
(*                                                                         *)
(* Strings are sequences of tokens (a token is a chunk of characters, " "  *)
(* is white space), so that concatenation, emptiness and trim() are        *)
(* computed.  JavaScript's undefined is the token string UNDEFINED, null   *)
(* objects are the record NULL.  Every await of the code is one action:    *)
(* the upstream's answer is chosen there and the continuation runs up to   *)
(* the next await.                                                         *)
(***************************************************************************)
EXTENDS Naturals, Sequences, FiniteSets, TLC

\* ------------------------------------------------------------------ bounds
\* Entries the upstream listing holds in all (over its pages).
MaxRepos == 2
\* Pages the upstream listing is cut into.
MaxPages == 2
\* Tokens of a string handed to AppLocation.create on its own.
MaxLen == 4

\* ------------------------------------------------------------------ values
NULL == [null |-> TRUE]
UNDEFINED == <<"<undefined>">>
NONE == [none |-> TRUE]

DOCKER_HUB_NAMESPACE == <<"abdelrahmanelbadawy1">>
PLACEHOLDER_PICTURE == <<"https://via.placeholder.com/150">>
NO_DESCRIPTION == <<"No description provided.">>
INFO_UNAVAILABLE == <<"Repository information unavailable.">>
LOCATION_EMPTY == <<"App location cannot be empty.">>

\* JavaScript truthiness of a string-or-undefined value, and a || b.
Truthy(v) == v # UNDEFINED /\ v # <<>>
\* a ?? b in the place of a || b: the empty string is kept.
OrNullish(a, b) == IF a # UNDEFINED THEN a ELSE b
Or(a, b) == IF Truthy(a) THEN a ELSE b

RECURSIVE TrimStart(_)
TrimStart(s) == IF s # <<>> /\ Head(s) = " " THEN TrimStart(Tail(s)) ELSE s
RECURSIVE TrimEnd(_)
TrimEnd(s) ==
  IF s # <<>> /\ s[Len(s)] = " " THEN TrimEnd(SubSeq(s, 1, Len(s) - 1)) ELSE s
Trim(s) == TrimEnd(TrimStart(s))

RECURSIVE SelectSeq2(_, _)
\* apps.filter(app => app !== null)
SelectSeq2(s, bad) ==
  IF s = <<>> THEN <<>>
  ELSE IF Head(s) = bad THEN SelectSeq2(Tail(s), bad)
       ELSE <<Head(s)>> \o SelectSeq2(Tail(s), bad)

Includes(s, x) == \E k \in 1..Len(s) : s[k] = x

\* ------------------------------------------------------------ domain objects
\* AppLocationCreate rejecting only the empty string.
AppLocationCreateNoTrim(location) ==
  IF ~Truthy(location)
  THEN [ok |-> FALSE, error |-> LOCATION_EMPTY]
  ELSE [ok |-> TRUE, value |-> [value |-> location]]

\* new AppLocation(location): throws on an empty or blank string.
AppLocationCreate(location) ==
  IF ~Truthy(location) \/ Len(Trim(location)) = 0
  THEN [ok |-> FALSE, error |-> LOCATION_EMPTY]
  ELSE [ok |-> TRUE, value |-> [value |-> location]]

\* BasicApp with the description always the placeholder.
BasicAppPlaceholder(repoName, info, loc) ==
  [name |-> Or(info.name, repoName),
   location |-> loc,
   description |-> NO_DESCRIPTION,
   pictureUrl |-> PLACEHOLDER_PICTURE]

\* The App literal of the four RepositoryInfo-only returns (the same literal).
BasicApp(repoName, info, loc) ==
  [name |-> Or(info.name, repoName),
   location |-> loc,
   description |-> Or(info.description, NO_DESCRIPTION),
   pictureUrl |-> PLACEHOLDER_PICTURE]

\* LabelledApp with RepositoryInfo's name preferred to the title label.
LabelledAppInfoFirst(repoName, info, labels, loc) ==
  [name |-> Or(info.name, Or(labels.title, repoName)),
   location |-> loc,
   description |-> Or(labels.description, Or(info.description, NO_DESCRIPTION)),
   pictureUrl |-> Or(labels.picture, PLACEHOLDER_PICTURE)]

\* The App literal built from the config blob's labels.
LabelledApp(repoName, info, labels, loc) ==
  [name |-> Or(labels.title, Or(info.name, repoName)),
   location |-> loc,
   description |-> Or(labels.description, Or(info.description, NO_DESCRIPTION)),
   pictureUrl |-> Or(labels.picture, PLACEHOLDER_PICTURE)]

\* The App literal of the catch block.
MinimalApp(repoName, loc) ==
  [name |-> repoName,
   location |-> loc,
   description |-> INFO_UNAVAILABLE,
   pictureUrl |-> PLACEHOLDER_PICTURE]

\* ---------------------------------------------------------------- upstream
\* What the two upstream services may answer.  status is "ok", "401", "404"
\* or "fail" (any other failure: 5xx, transport error, timeout).
Failures == {"401", "404", "fail"}
Failed(s) == [status |-> s, data |-> NULL]
Ok(d) == [status |-> "ok", data |-> d]

RawNames == {<<"a">>, <<"b">>}
INFO_NAME == <<"Info name">>
INFO_DESCRIPTION == <<"Info description">>
LABEL_TITLE == <<"Label title">>
LABEL_DESCRIPTION == <<"Label description">>
LABEL_PICTURE == <<"https://label/picture.png">>
DIGEST == <<"sha256:c0ffee">>
TOKEN == <<"pull-token">>
TOKEN_2 == <<"pull-token-2">>

RECURSIVE SeqsUpTo(_, _)
\* The sequences over S of length at most n.
SeqsUpTo(S, n) ==
  IF n = 0 THEN {<<>>}
  ELSE LET shorter == SeqsUpTo(S, n - 1)
       IN shorter \cup {Append(q, x) : q \in {r \in shorter : Len(r) = n - 1}, x \in S}

\* A listing page: { results: [{ name }], next }, next = 0 standing for null
\* and k > 0 for the URL of page k.  room is what the bounds still allow, and
\* more whether the upstream still has a further page.
PageBodies(room, more, nextPage) ==
  {[results |-> [k \in 1..Len(q) |-> [name |-> q[k]]], next |-> n] :
      q \in SeqsUpTo(RawNames, room),
      n \in {0} \cup (IF more THEN {nextPage} ELSE {})}
PageResponses(room, more, nextPage) ==
  {Ok(b) : b \in PageBodies(room, more, nextPage)} \cup {Failed(s) : s \in Failures}

TagsBody(t) == [results |-> [k \in 1..Len(t) |-> [name |-> t[k]]]]
Answers(bodies) == {Ok(b) : b \in bodies} \cup {Failed(s) : s \in Failures}

\* A label mapping: the three keys the code reads, UNDEFINED for a key the
\* mapping does not hold.
LabelMaps ==
  {[title |-> t, description |-> d, picture |-> p] :
     t \in {UNDEFINED, <<>>, LABEL_TITLE},
     d \in {UNDEFINED, <<>>, LABEL_DESCRIPTION},
     p \in {UNDEFINED, <<>>, LABEL_PICTURE}}
AllLabels ==
  [title |-> LABEL_TITLE, description |-> LABEL_DESCRIPTION, picture |-> LABEL_PICTURE]

\* Every body each endpoint may answer with: what one repository's resolution
\* is explored against.
AllBodies ==
  [info |-> Answers([name : {UNDEFINED, INFO_NAME},
                     description : {UNDEFINED, <<>>, INFO_DESCRIPTION}]),
   tags |-> Answers({TagsBody(t) : t \in {<<>>, <<"v2", "latest">>, <<"v2", "v1">>}}),
   manifest |-> Answers({NULL, [config |-> NULL], [config |-> [digest |-> UNDEFINED]],
                         [config |-> [digest |-> DIGEST]]}),
   token |-> Answers({[token |-> TOKEN], [token |-> TOKEN_2], [token |-> UNDEFINED]}),
   blob |-> Answers({NULL, [config |-> NULL], [config |-> [Labels |-> NULL]]}
                      \cup {[config |-> [Labels |-> l]] : l \in LabelMaps})]

\* One body per endpoint and every failure: what a whole batch of concurrent
\* resolutions is explored against.
OneBody ==
  [info |-> Answers({[name |-> INFO_NAME, description |-> INFO_DESCRIPTION]}),
   tags |-> Answers({TagsBody(<<>>), TagsBody(<<"v2", "latest">>)}),
   manifest |-> Answers({[config |-> [digest |-> DIGEST]]}),
   token |-> Answers({[token |-> TOKEN]}),
   blob |-> Answers({[config |-> [Labels |-> AllLabels]]})]

NoLabels == [title |-> UNDEFINED, description |-> UNDEFINED, picture |-> UNDEFINED]

\* ------------------------------------------------------- DockerRegistryClient
\* FullNames without the namespace.
FullNamesBare(repos) == [k \in 1..Len(repos) |-> repos[k].name]

\* The names a finished listing returns: `${DOCKER_HUB_NAMESPACE}/${repo.name}`.
FullNames(repos) ==
  [k \in 1..Len(repos) |-> DOCKER_HUB_NAMESPACE \o <<"/">> \o repos[k].name]

\* Concat keeping only the page just fetched.
ConcatReplace(repos, results) == results

\* repositories = repositories.concat(response.data.results)
Concat(repos, results) == repos \o results

\* ListingCatch returning the names of the pages fetched before the failure.
ListingCatchPartial(repos) == [ok |-> TRUE, value |-> FullNames(repos)]

\* getRepositoriesFromDockerHub's catch: log, return [].
ListingCatch(repos) == [ok |-> TRUE, value |-> <<>>]

\* GetRepositoryTags assuming the tag "latest" when the request fails.
GetRepositoryTagsDefault(resp) ==
  IF resp.status = "ok"
  THEN [k \in 1..Len(resp.data.results) |-> resp.data.results[k].name]
  ELSE <<"latest">>

\* getRepositoryTags: the tag names, [] on a 404 and on any other failure.
GetRepositoryTags(resp) ==
  IF resp.status = "ok"
  THEN [k \in 1..Len(resp.data.results) |-> resp.data.results[k].name]
  ELSE <<>>

\* SelectTag taking the last tag listed.
SelectTagLast(tags) == tags[Len(tags)]

\* tags.includes("latest") ? "latest" : tags[0]
SelectTag(tags) == IF Includes(tags, "latest") THEN "latest" ELSE tags[1]

\* The axios error of a failed request (the catch blocks above it read its
\* status only where the answer is still at hand).
HttpError(endpoint, status) == [from |-> endpoint, message |-> "Request failed"]
NoTokenError ==
  [from |-> "token", message |-> "No token received from Docker Hub auth service"]
TagNotFound(tag, available) ==
  [from |-> "getManifest", message |-> "Tag not found", tag |-> tag,
   available |-> available]
LocationError == [from |-> "AppLocation", message |-> LOCATION_EMPTY]

\* GetDockerHubAuthToken returning response.data.token unchecked.
GetDockerHubAuthTokenUnchecked(resp) ==
  IF resp.status # "ok" THEN [ok |-> FALSE, error |-> HttpError("token", resp.status)]
  ELSE [ok |-> TRUE, value |-> resp.data.token]

\* getDockerHubAuthToken on the token endpoint's answer.
GetDockerHubAuthToken(resp) ==
  IF resp.status # "ok" THEN [ok |-> FALSE, error |-> HttpError("token", resp.status)]
  ELSE IF ~Truthy(resp.data.token) THEN [ok |-> FALSE, error |-> NoTokenError]
  ELSE [ok |-> TRUE, value |-> resp.data.token]

\* -------------------------------------------------- one repository's resolution
\* The frame of one findAll callback.  pc is the await it is suspended at:
\*   info      getRepositoryInfo's GET of the repository
\*   infoTags  getRepositoryInfo's getRepositoryTags
\*   mTags     getManifest's getRepositoryTags (no tag given)
\*   manifest  getManifest's unauthenticated GET
\*   m404Tags  getManifest's getRepositoryTags after a 404
\*   mToken    getManifest's getDockerHubAuthToken
\*   mAuth     getManifest's GET with the bearer token
\*   blob, bToken, bAuth   the same three of getConfig
\*   done      the callback's promise is fulfilled with app
\*   rejected  the callback's promise is rejected
\* log is the requests it has sent, in order.
NewTask ==
  [pc |-> "info", data |-> NULL, repoInfo |-> NULL, tags |-> <<>>, tag |-> "",
   token |-> UNDEFINED, manifest |-> NONE, config |-> NONE, app |-> NONE,
   err |-> NONE, log |-> <<"info">>, answer |-> ""]

\* The answer to the request the callback was waiting for has arrived.
Heard(t, resp) == [t EXCEPT !.answer = IF resp.status = "ok" THEN "ok" ELSE "failed"]

Send(t, req, pc) == [t EXCEPT !.pc = pc, !.log = Append(@, req)]
Return(t, a) == [t EXCEPT !.pc = "done", !.app = a]
\* LeaveClient with the token kept by the client for its next call.
LeaveClientKeepToken(t) == [t EXCEPT !.data = NULL, !.tags = <<>>, !.tag = ""]

\* The locals of a client call that has returned or thrown are gone.
LeaveClient(t) == [t EXCEPT !.data = NULL, !.tags = <<>>, !.tag = "", !.token = UNDEFINED]

\* CatchRepo without the catch: the callback's promise rejects.
CatchRepoRethrow(t, repoName, e) ==
  [LeaveClient(t) EXCEPT !.pc = "rejected", !.repoInfo = NULL, !.manifest = NONE,
                         !.config = NONE, !.err = e]

\* CatchRepo returning null for any repository that fails.
CatchRepoNull(t, repoName, e) ==
  Return([LeaveClient(t) EXCEPT !.repoInfo = NULL, !.manifest = NONE,
                                !.config = NONE, !.err = e], NULL)

\* The callback's catch (error): the locals of the try block are gone, a
\* minimal App is built, and null is returned if even that throws.
CatchRepo(t, repoName, e) ==
  LET loc == AppLocationCreate(repoName)
      gone == [LeaveClient(t) EXCEPT !.repoInfo = NULL, !.manifest = NONE,
                                     !.config = NONE, !.err = e]
  IN Return(gone, IF loc.ok THEN MinimalApp(repoName, loc.value) ELSE NULL)

\* ReturnBasic with the location built from RepositoryInfo's name.
ReturnBasicInfoLocation(t, repoName) ==
  LET loc == AppLocationCreate(t.repoInfo.name)
  IN IF loc.ok THEN Return(t, BasicApp(repoName, t.repoInfo, loc.value))
     ELSE CatchRepo(t, repoName, LocationError)

\* return { name: repoInfo.name || repoName, ... } inside the try block.
ReturnBasic(t, repoName) ==
  LET loc == AppLocationCreate(repoName)
  IN IF loc.ok THEN Return(t, BasicApp(repoName, t.repoInfo, loc.value))
     ELSE CatchRepo(t, repoName, LocationError)

\* findAll once getManifest has returned m.
AfterManifest(t, repoName, m) ==
  LET t0 == [LeaveClient(t) EXCEPT !.manifest = m]
  IN IF m = NULL THEN ReturnBasic(t0, repoName)
     ELSE IF m.config = NULL \/ ~Truthy(m.config.digest) THEN ReturnBasic(t0, repoName)
     ELSE Send(t0, "blob", "blob")

\* AfterConfig with the location built from the title label when there is one.
AfterConfigTitleLocation(t, repoName, c) ==
  LET t0 == [LeaveClient(t) EXCEPT !.config = c]
      labels == IF c = NULL \/ c.config = NULL \/ c.config.Labels = NULL
                THEN NoLabels ELSE c.config.Labels
      loc == AppLocationCreate(Or(labels.title, repoName))
  IN IF c = NULL THEN ReturnBasic(t0, repoName)
     ELSE IF loc.ok THEN Return(t0, LabelledApp(repoName, t0.repoInfo, labels, loc.value))
     ELSE CatchRepo(t0, repoName, LocationError)

\* findAll once getConfig has returned c.
AfterConfig(t, repoName, c) ==
  LET t0 == [LeaveClient(t) EXCEPT !.config = c]
      labels == IF c = NULL \/ c.config = NULL \/ c.config.Labels = NULL
                THEN NoLabels ELSE c.config.Labels
      loc == AppLocationCreate(repoName)
  IN IF c = NULL THEN ReturnBasic(t0, repoName)
     ELSE IF loc.ok THEN Return(t0, LabelledApp(repoName, t0.repoInfo, labels, loc.value))
     ELSE CatchRepo(t0, repoName, LocationError)

\* OnInfo raising the failure to findAll's callback.
OnInfoThrow(t, repoName, resp) ==
  IF resp.status = "ok" THEN Send([t EXCEPT !.data = resp.data], "tags", "infoTags")
  ELSE CatchRepo(t, repoName, HttpError("info", resp.status))

\* getRepositoryInfo's GET answered.
OnInfo(t, repoName, resp) ==
  IF resp.status = "ok" THEN Send([t EXCEPT !.data = resp.data], "tags", "infoTags")
  ELSE Return(t, NULL)

\* OnInfoTags going on to getManifest whether or not there are tags.
OnInfoTagsAlways(t, repoName, resp) ==
  LET tags == GetRepositoryTags(resp)
      info == [name |-> t.data.name, description |-> t.data.description,
               has_tags |-> Len(tags) > 0, available_tags |-> tags]
      t0 == [LeaveClient(t) EXCEPT !.repoInfo = info]
  IN Send(t0, "tags", "mTags")

\* getRepositoryInfo's tags answered: repoInfo is built, findAll goes on.
OnInfoTags(t, repoName, resp) ==
  LET tags == GetRepositoryTags(resp)
      info == [name |-> t.data.name, description |-> t.data.description,
               has_tags |-> Len(tags) > 0, available_tags |-> tags]
      t0 == [LeaveClient(t) EXCEPT !.repoInfo = info]
  IN IF ~info.has_tags \/ Len(info.available_tags) = 0 THEN ReturnBasic(t0, repoName)
     ELSE Send(t0, "tags", "mTags")

\* OnManifestTags raising a failure of the tags request.
OnManifestTagsThrow(t, repoName, resp) ==
  LET tags == GetRepositoryTags(resp)
  IN IF resp.status # "ok" THEN CatchRepo(t, repoName, HttpError("tags", resp.status))
     ELSE IF Len(tags) = 0 THEN AfterManifest(t, repoName, NULL)
     ELSE Send([t EXCEPT !.tags = tags, !.tag = SelectTag(tags)], "manifest", "manifest")

\* OnManifestTags asking for "latest" when no tag is listed.
OnManifestTagsLatest(t, repoName, resp) ==
  LET tags == GetRepositoryTags(resp)
  IN IF Len(tags) = 0 THEN Send([t EXCEPT !.tag = "latest"], "manifest", "manifest")
     ELSE Send([t EXCEPT !.tags = tags, !.tag = SelectTag(tags)], "manifest", "manifest")

\* OnManifestTags selecting among the tags RepositoryInfo already holds.
OnManifestTagsFromInfo(t, repoName, resp) ==
  LET tags == t.repoInfo.available_tags
  IN IF Len(tags) = 0 THEN AfterManifest(t, repoName, NULL)
     ELSE Send([t EXCEPT !.tags = tags, !.tag = SelectTag(tags)], "manifest", "manifest")

\* getManifest's tags answered.
OnManifestTags(t, repoName, resp) ==
  LET tags == GetRepositoryTags(resp)
  IN IF Len(tags) = 0 THEN AfterManifest(t, repoName, NULL)
     ELSE Send([t EXCEPT !.tags = tags, !.tag = SelectTag(tags)], "manifest", "manifest")

\* OnManifest asking for a token after any failure but a 404.
OnManifestTokenAlways(t, repoName, resp) ==
  CASE resp.status = "ok" -> AfterManifest(t, repoName, resp.data)
    [] resp.status = "404" -> Send(t, "tags", "m404Tags")
    [] OTHER -> Send(t, "token", "mToken")

\* getManifest's unauthenticated GET answered.
OnManifest(t, repoName, resp) ==
  CASE resp.status = "ok" -> AfterManifest(t, repoName, resp.data)
    [] resp.status = "401" -> Send(t, "token", "mToken")
    [] resp.status = "404" -> Send(t, "tags", "m404Tags")
    [] OTHER -> CatchRepo(t, repoName, HttpError("manifest", resp.status))

\* OnManifest404Tags returning null for the missing tag.
OnManifest404Absent(t, repoName, resp) == AfterManifest(t, repoName, NULL)

\* getManifest's tags after a 404 answered: throw new Error(...).
OnManifest404Tags(t, repoName, resp) ==
  CatchRepo(t, repoName, TagNotFound(t.tag, GetRepositoryTags(resp)))

\* getManifest's token answered.
OnManifestToken(t, repoName, resp) ==
  LET tok == GetDockerHubAuthToken(resp)
  IN IF tok.ok THEN Send([t EXCEPT !.token = tok.value], "manifest+token", "mAuth")
     ELSE CatchRepo(t, repoName, tok.error)

\* OnManifestAuth returning the response object instead of response.data.
OnManifestAuthResponse(t, repoName, resp) ==
  IF resp.status = "ok"
  THEN AfterManifest(t, repoName, [config |-> NULL, data |-> resp.data])
  ELSE CatchRepo(t, repoName, HttpError("manifest+token", resp.status))

\* getManifest's GET with the bearer token answered.
OnManifestAuth(t, repoName, resp) ==
  IF resp.status = "ok" THEN AfterManifest(t, repoName, resp.data)
  ELSE CatchRepo(t, repoName, HttpError("manifest+token", resp.status))

\* OnBlob swallowing the failure: getConfig returns null.
OnBlobSwallow(t, repoName, resp) ==
  CASE resp.status = "ok" -> AfterConfig(t, repoName, resp.data)
    [] resp.status = "401" -> Send(t, "token", "bToken")
    [] OTHER -> AfterConfig(t, repoName, NULL)

\* getConfig's unauthenticated GET answered.
OnBlob(t, repoName, resp) ==
  CASE resp.status = "ok" -> AfterConfig(t, repoName, resp.data)
    [] resp.status = "401" -> Send(t, "token", "bToken")
    [] OTHER -> CatchRepo(t, repoName, HttpError("blob", resp.status))

\* getConfig's token answered.
OnBlobToken(t, repoName, resp) ==
  LET tok == GetDockerHubAuthToken(resp)
  IN IF tok.ok THEN Send([t EXCEPT !.token = tok.value], "blob+token", "bAuth")
     ELSE CatchRepo(t, repoName, tok.error)

\* OnBlobAuth returning null when the retry fails.
OnBlobAuthSwallow(t, repoName, resp) ==
  IF resp.status = "ok" THEN AfterConfig(t, repoName, resp.data)
  ELSE AfterConfig(t, repoName, NULL)

\* getConfig's GET with the bearer token answered.
OnBlobAuth(t, repoName, resp) ==
  IF resp.status = "ok" THEN AfterConfig(t, repoName, resp.data)
  ELSE CatchRepo(t, repoName, HttpError("blob+token", resp.status))

\* ------------------------------------------------------------------ findAll
\* PromiseAllStore pushing the value: the array is in completion order.
PromiseAllPush(apps, i, v) ==
  LET free == {k \in 1..Len(apps) : apps[k] = NONE}
      first == CHOOSE k \in free : \A l \in free : k <= l
  IN [apps EXCEPT ![first] = v]

\* Promise.all stores a fulfilled promise's value at the promise's position.
PromiseAllStore(apps, i, v) == [apps EXCEPT ![i] = v]

\* findAll's outer catch: log, return [].
FindAllCatch == [ok |-> TRUE, value |-> <<>>]

\* const apps = await Promise.all(appPromises); return apps.filter(...)
\* Promise.all rejects as soon as one promise rejects.
JoinAll(tasks, apps) ==
  IF \E k \in 1..Len(tasks) : tasks[k].pc = "rejected" THEN FindAllCatch
  ELSE [ok |-> TRUE, value |-> SelectSeq2(apps, NULL)]

\* AppService.getAllApps: hands the repository's result on.
GetAllApps(r) == r

\* Controller answering 502 when the catalogue is empty.
ControllerBadGateway(r) ==
  IF r.ok /\ r.value # <<>>
  THEN [status |-> 200,
        body |-> [k \in 1..Len(r.value) |->
                    [name |-> r.value[k].name, location |-> r.value[k].location.value,
                     description |-> r.value[k].description,
                     pictureUrl |-> r.value[k].pictureUrl]]]
  ELSE [status |-> 502, body |-> NULL]

\* getAllAppsController: the DTOs and status 200.  A rejection of the awaited
\* call rejects the handler: the response is not the handler's.
Controller(r) ==
  IF r.ok
  THEN [status |-> 200,
        body |-> [k \in 1..Len(r.value) |->
                    [name |-> r.value[k].name, location |-> r.value[k].location.value,
                     description |-> r.value[k].description,
                     pictureUrl |-> r.value[k].pictureUrl]]]
  ELSE [status |-> 500, body |-> NULL]

\* ------------------------------------------------------------------- state
VARIABLES
  phase,         \* "idle", "listing", "resolving", "joined", "responded"
  nextUrl,       \* getRepositoriesFromDockerHub's nextUrl (0: null)
  repositories,  \* getRepositoriesFromDockerHub's accumulated results
  pages,         \* the page URLs requested, in order
  served,        \* the page bodies the listing was answered with, in order,
                 \* at hand until findAll's next step
  names,         \* what getRepositoriesFromDockerHub returned to findAll
  task,          \* one frame per listed name
  apps,          \* Promise.all's values (NONE: not fulfilled yet)
  overtook,      \* a callback has settled before one listed earlier
  result,        \* what findAll returned (NONE before)
  http,          \* the response written (NONE before)
  appLocation    \* a call of AppLocation.create made on its own: its argument
                 \* and what it returned or threw (NONE: no such call)

vars ==
  <<phase, nextUrl, repositories, pages, served, names, task, apps, overtook, result, http,
    appLocation>>

Init ==
  /\ phase = "idle"
  /\ nextUrl = 0
  /\ repositories = <<>>
  /\ pages = <<>>
  /\ served = <<>>
  /\ names = <<>>
  /\ task = <<>>
  /\ apps = <<>>
  /\ overtook = FALSE
  /\ result = NONE
  /\ http = NONE
  /\ appLocation = NONE

Entries == 1..Len(task)
Settled(t) == t.pc \in {"done", "rejected"}

\* GET /api/apps arrives: controller -> service -> findAll ->
\* getRepositoriesFromDockerHub, which requests the first page.
Request ==
  /\ phase = "idle"
  /\ phase' = "listing"
  /\ nextUrl' = 1
  /\ pages' = <<1>>
  /\ UNCHANGED <<repositories, served, names, task, apps, overtook, result, http, appLocation>>

\* findAll once getRepositoriesFromDockerHub has returned r: every callback
\* of repositories.map runs to its first await.
StartAll(r) ==
  IF r.ok
  THEN /\ phase' = "resolving"
       /\ names' = r.value
       /\ task' = [k \in 1..Len(r.value) |-> NewTask]
       /\ apps' = [k \in 1..Len(r.value) |-> NONE]
       /\ result' = result
  ELSE /\ phase' = "joined"
       /\ result' = FindAllCatch
       /\ UNCHANGED <<names, task, apps>>

\* OnPage asking once more for a page whose request failed.
OnPageRetry ==
  /\ phase = "listing"
  /\ \E resp \in PageResponses(MaxRepos - Len(repositories), Len(pages) < MaxPages,
                               Len(pages) + 1) :
       IF resp.status = "ok"
       THEN LET all == Concat(repositories, resp.data.results)
            IN /\ repositories' = all
               /\ nextUrl' = resp.data.next
               /\ served' = Append(served, resp.data)
               /\ IF resp.data.next # 0
                  THEN /\ pages' = Append(pages, resp.data.next)
                       /\ UNCHANGED <<phase, names, task, apps, result>>
                  ELSE /\ pages' = pages
                       /\ StartAll([ok |-> TRUE, value |-> FullNames(all)])
       ELSE IF Len(pages) < MaxPages
            THEN /\ pages' = Append(pages, nextUrl)
                 /\ UNCHANGED <<repositories, nextUrl, served, phase, names, task, apps, result>>
            ELSE /\ UNCHANGED <<repositories, nextUrl, pages, served>>
                 /\ StartAll(ListingCatch(repositories))
  /\ UNCHANGED <<overtook, http, appLocation>>

\* A listing page is answered.
OnPage ==
  /\ phase = "listing"
  /\ \E resp \in PageResponses(MaxRepos - Len(repositories), Len(pages) < MaxPages,
                               Len(pages) + 1) :
       IF resp.status = "ok"
       THEN LET all == Concat(repositories, resp.data.results)
            IN /\ repositories' = all
               /\ nextUrl' = resp.data.next
               /\ served' = Append(served, resp.data)
               /\ IF resp.data.next # 0
                  THEN /\ pages' = Append(pages, resp.data.next)
                       /\ UNCHANGED <<phase, names, task, apps, result>>
                  ELSE /\ pages' = pages
                       /\ StartAll([ok |-> TRUE, value |-> FullNames(all)])
       ELSE /\ UNCHANGED <<repositories, nextUrl, pages, served>>
            /\ StartAll(ListingCatch(repositories))
  /\ UNCHANGED <<overtook, http, appLocation>>

\* Callback i's await is answered and the callback runs on to next.
Advance(i, next) ==
  /\ task' = [task EXCEPT ![i] = next]
  /\ apps' = IF next.pc = "done" THEN PromiseAllStore(apps, i, next.app) ELSE apps
  /\ overtook' = (overtook \/ (Settled(next) /\ \E k \in 1..(i - 1) : ~Settled(task[k])))
  /\ served' = <<>>
  /\ UNCHANGED <<phase, nextUrl, repositories, pages, names, result, http, appLocation>>

InfoAnswered(i, U) ==
  /\ task[i].pc = "info"
  /\ \E resp \in U.info : Advance(i, Heard(OnInfo(task[i], names[i], resp), resp))

InfoTagsAnswered(i, U) ==
  /\ task[i].pc = "infoTags"
  /\ \E resp \in U.tags : Advance(i, Heard(OnInfoTags(task[i], names[i], resp), resp))

ManifestTagsAnswered(i, U) ==
  /\ task[i].pc = "mTags"
  /\ \E resp \in U.tags : Advance(i, Heard(OnManifestTags(task[i], names[i], resp), resp))

ManifestAnswered(i, U) ==
  /\ task[i].pc = "manifest"
  /\ \E resp \in U.manifest : Advance(i, Heard(OnManifest(task[i], names[i], resp), resp))

Manifest404TagsAnswered(i, U) ==
  /\ task[i].pc = "m404Tags"
  /\ \E resp \in U.tags : Advance(i, Heard(OnManifest404Tags(task[i], names[i], resp), resp))

ManifestTokenAnswered(i, U) ==
  /\ task[i].pc = "mToken"
  /\ \E resp \in U.token : Advance(i, Heard(OnManifestToken(task[i], names[i], resp), resp))

ManifestAuthAnswered(i, U) ==
  /\ task[i].pc = "mAuth"
  /\ \E resp \in U.manifest : Advance(i, Heard(OnManifestAuth(task[i], names[i], resp), resp))

BlobAnswered(i, U) ==
  /\ task[i].pc = "blob"
  /\ \E resp \in U.blob : Advance(i, Heard(OnBlob(task[i], names[i], resp), resp))

BlobTokenAnswered(i, U) ==
  /\ task[i].pc = "bToken"
  /\ \E resp \in U.token : Advance(i, Heard(OnBlobToken(task[i], names[i], resp), resp))

BlobAuthAnswered(i, U) ==
  /\ task[i].pc = "bAuth"
  /\ \E resp \in U.blob : Advance(i, Heard(OnBlobAuth(task[i], names[i], resp), resp))

\* Join settling with the first callback that settles (Promise.race).
JoinFirst ==
  /\ phase = "resolving"
  /\ Entries = {} \/ \E i \in Entries : Settled(task[i])
  /\ result' = JoinAll(task, apps)
  /\ phase' = "joined"
  /\ served' = <<>>
  /\ UNCHANGED <<nextUrl, repositories, pages, names, task, apps, overtook, http, appLocation>>

\* Promise.all settles: findAll returns.
Join ==
  /\ phase = "resolving"
  /\ \/ \A i \in Entries : task[i].pc = "done"
     \/ \E i \in Entries : task[i].pc = "rejected"
  /\ result' = JoinAll(task, apps)
  /\ phase' = "joined"
  /\ served' = <<>>
  /\ UNCHANGED <<nextUrl, repositories, pages, names, task, apps, overtook, http, appLocation>>

\* The controller writes the response.
Respond ==
  /\ phase = "joined"
  /\ http' = Controller(GetAllApps(result))
  /\ phase' = "responded"
  /\ UNCHANGED <<nextUrl, repositories, pages, served, names, task, apps, overtook, result,
                 appLocation>>

\* One request, from its arrival to its response.
Next ==
  \/ Request
  \/ OnPage
  \/ \E i \in Entries : InfoAnswered(i, OneBody)
  \/ \E i \in Entries : InfoTagsAnswered(i, OneBody)
  \/ \E i \in Entries : ManifestTagsAnswered(i, OneBody)
  \/ \E i \in Entries : ManifestAnswered(i, OneBody)
  \/ \E i \in Entries : Manifest404TagsAnswered(i, OneBody)
  \/ \E i \in Entries : ManifestTokenAnswered(i, OneBody)
  \/ \E i \in Entries : ManifestAuthAnswered(i, OneBody)
  \/ \E i \in Entries : BlobAnswered(i, OneBody)
  \/ \E i \in Entries : BlobTokenAnswered(i, OneBody)
  \/ \E i \in Entries : BlobAuthAnswered(i, OneBody)
  \/ Join
  \/ Respond

Spec == Init /\ [][Next]_vars

\* The repository endpoint refusing every request.
RegistryDown == [info |-> {Failed(s) : s \in Failures}]

\* The request seen from the listing: the pages, then callbacks that each
\* end at the first request, which is refused.
NextListing ==
  \/ Request
  \/ OnPage
  \/ \E i \in Entries : InfoAnswered(i, RegistryDown)
  \/ Join
  \/ Respond

\* Every page request is answered in the end: axios settles the promise
\* awaited in getRepositoriesFromDockerHub's loop, by a response or by an
\* error.
SpecListing == Init /\ [][NextListing]_vars /\ WF_vars(OnPage)

\* One repository's resolution, from the moment findAll has started its
\* callback (the listing held this one name, possibly an empty one) to the
\* response.
InitResolve ==
  /\ phase = "resolving"
  /\ nextUrl = 0
  /\ pages = <<1>>
  /\ served = <<>>
  /\ \E raw \in RawNames \cup {<<>>} :
       /\ repositories = <<[name |-> raw]>>
       /\ names = FullNames(<<[name |-> raw]>>)
  /\ task = <<NewTask>>
  /\ apps = <<NONE>>
  /\ overtook = FALSE
  /\ result = NONE
  /\ http = NONE
  /\ appLocation = NONE

NextResolve ==
  \/ InfoAnswered(1, AllBodies)
  \/ InfoTagsAnswered(1, AllBodies)
  \/ ManifestTagsAnswered(1, AllBodies)
  \/ ManifestAnswered(1, AllBodies)
  \/ Manifest404TagsAnswered(1, AllBodies)
  \/ ManifestTokenAnswered(1, AllBodies)
  \/ ManifestAuthAnswered(1, AllBodies)
  \/ BlobAnswered(1, AllBodies)
  \/ BlobTokenAnswered(1, AllBodies)
  \/ BlobAuthAnswered(1, AllBodies)
  \/ Join
  \/ Respond

SpecResolve == InitResolve /\ [][NextResolve]_vars

\* The strings AppLocation.create is tried on: up to MaxLen tokens, a token
\* being white space or a chunk of other characters, and undefined.
Locations == SeqsUpTo({" ", "a", "/"}, MaxLen) \cup {UNDEFINED}

\* AppLocation.create(location) called on its own, as the unit test does.
CreateLocation ==
  /\ appLocation = NONE
  /\ \E location \in Locations :
       appLocation' = [location |-> location, outcome |-> AppLocationCreate(location)]
  /\ UNCHANGED <<phase, nextUrl, repositories, pages, served, names, task, apps, overtook,
                 result, http>>

NextLocation == CreateLocation

SpecLocation == Init /\ [][NextLocation]_vars

\* ===================================================================
\* Properties
\* ===================================================================
AppOf(i) == task[i].app
Done(i) == task[i].pc = "done"
Returned == phase \in {"joined", "responded"}
LocationOf(name) == [value |-> name]
\* The callback's catch block was entered.
Caught(i) == Done(i) /\ task[i].err # NONE
IsArray(v) == DOMAIN v = 1..Len(v)

C2_Frame ==
  \A i \in Entries : \A j \in Entries \ {i} :
     (Len(task') = Len(task) /\ task'[j] # task[j])
        => task'[i] = task[i] /\ apps'[i] = apps[i]
C2_NoAbort ==
  /\ \A i \in Entries : task[i].pc # "rejected"
  /\ Returned =>
       \A i \in Entries :
          /\ Done(i)
          /\ AppOf(i) # NULL => \E k \in 1..Len(result.value) : result.value[k] = AppOf(i)
C2_Isolation == [](C2_NoAbort) /\ [][C2_Frame]_vars

\* C2's case: findAll has returned the labelled record of one repository
\* although another one's resolution threw.
C2_Witness ==
  /\ Returned
  /\ \E i, j \in Entries :
       /\ i # j /\ Caught(j)
       /\ task[i].config # NONE /\ task[i].config # NULL
       /\ AppOf(i).name = LABEL_TITLE
       /\ \E k \in 1..Len(result.value) : result.value[k] = AppOf(i)

\* The listing ended in getRepositoriesFromDockerHub's catch: nextUrl still
\* holds the URL whose request failed.
ListingFailed == phase \notin {"idle", "listing"} /\ nextUrl # 0

\* C3: when a page request fails, on the first page or on a later one, the
\* listing returns [], the names accumulated so far are dropped, no callback
\* is started and findAll returns [] without an error.
C3_ListingFailureEmpty ==
  ListingFailed =>
    /\ names = <<>> /\ task = <<>> /\ apps = <<>>
    /\ result # NONE => result = [ok |-> TRUE, value |-> <<>>]
    /\ http # NONE => http = [status |-> 200, body |-> <<>>]

\* C3's case: the second page failed after the first had delivered names,
\* and findAll has returned.
C3_Witness ==
  /\ ListingFailed /\ Returned
  /\ Len(pages) = 2 /\ repositories # <<>>

\* getConfig threw: the blob request was sent and the catch block entered.
BlobFetchFailed(i) ==
  /\ Done(i)
  /\ Includes(task[i].log, "blob")
  /\ task[i].answer = "failed" \/ task[i].log[Len(task[i].log)] = "token"

\* C4 as claimed: when the blob fetch fails after a manifest with a digest
\* was fetched, the record is the RepositoryInfo-only record.
C4_Original ==
  [][\A i \in Entries :
       (task[i].pc \in {"blob", "bToken", "bAuth"} /\ task'[i].pc = "done"
          /\ task'[i].answer = "failed")
         => task'[i].app = BasicApp(names[i], task[i].repoInfo, LocationOf(names[i]))]_vars

\* C4 as amended: when the blob fetch fails after a manifest with a digest
\* was fetched, the record is the minimal one of the catch block; the
\* RepositoryInfo-only record follows a blob request only when it was
\* answered successfully with an empty body.
C4_BlobFailureMinimal ==
  \A i \in Entries :
     /\ BlobFetchFailed(i) =>
          /\ AppOf(i).name = names[i]
          /\ AppOf(i).location = LocationOf(names[i])
          /\ AppOf(i).description = INFO_UNAVAILABLE
          /\ AppOf(i).pictureUrl = PLACEHOLDER_PICTURE
     /\ (Done(i) /\ Includes(task[i].log, "blob") /\ task[i].answer = "ok"
           /\ task[i].config = NULL) =>
          /\ task[i].err = NONE
          /\ AppOf(i).name = Or(task[i].repoInfo.name, names[i])
          /\ AppOf(i).description = Or(task[i].repoInfo.description, NO_DESCRIPTION)
          /\ AppOf(i).pictureUrl = PLACEHOLDER_PICTURE

\* C4's case: the blob request failed although RepositoryInfo was at hand.
C4_Witness ==
  \E i \in Entries :
     /\ BlobFetchFailed(i)
     /\ task[i].log = <<"info", "tags", "tags", "manifest", "blob">>

\* C5: when the info request fails, with a 404 or otherwise, no error reaches
\* findAll's callback, the callback yields null and findAll's result holds
\* no record of that name.
C5_AbsentInfoOmitted ==
  \A i \in Entries :
     (Done(i) /\ task[i].log = <<"info">>) =>
        /\ task[i].err = NONE
        /\ task[i].repoInfo = NULL
        /\ AppOf(i) = NULL
        /\ result # NONE =>
             \A k \in 1..Len(result.value) : result.value[k].location.value # names[i]

\* C5's case: findAll has returned after the info request failed.
C5_Witness ==
  /\ Returned
  /\ \E i \in Entries : Done(i) /\ task[i].log = <<"info">>

\* RepositoryInfo was built and reported no tag.
ZeroTags(i) ==
  Done(i) /\ task[i].err = NONE /\ task[i].repoInfo # NULL /\ ~task[i].repoInfo.has_tags

\* C6 as claimed: with zero tags the description is the placeholder.
C6_Original ==
  \A i \in Entries :
     ZeroTags(i) =>
        /\ AppOf(i).description = NO_DESCRIPTION
        /\ AppOf(i).pictureUrl = PLACEHOLDER_PICTURE
        /\ AppOf(i).name = (IF Truthy(task[i].repoInfo.name)
                            THEN task[i].repoInfo.name ELSE names[i])

\* C6 as amended: with zero tags the description is RepositoryInfo's
\* description, or the placeholder when that is missing or empty; the picture
\* is the placeholder and the name RepositoryInfo's name or the raw name.
C6_ZeroTagsRecord ==
  \A i \in Entries :
     ZeroTags(i) =>
        /\ AppOf(i).description = (IF Truthy(task[i].repoInfo.description)
                                   THEN task[i].repoInfo.description ELSE NO_DESCRIPTION)
        /\ AppOf(i).pictureUrl = PLACEHOLDER_PICTURE
        /\ AppOf(i).name = (IF Truthy(task[i].repoInfo.name)
                            THEN task[i].repoInfo.name ELSE names[i])
        /\ task[i].log = <<"info", "tags">>

\* C6's case: zero tags, a RepositoryInfo with a description and no name.
C6_Witness ==
  \E i \in Entries :
     /\ ZeroTags(i)
     /\ task[i].repoInfo.description = INFO_DESCRIPTION
     /\ task[i].repoInfo.name = UNDEFINED

\* The config blob carried a label mapping holding the title key.
HasTitle(i) ==
  /\ Done(i) /\ task[i].err = NONE
  /\ task[i].config # NONE /\ task[i].config # NULL
  /\ task[i].config.config # NULL /\ task[i].config.config.Labels # NULL
  /\ task[i].config.config.Labels.title # UNDEFINED
TitleOf(i) == task[i].config.config.Labels.title

\* C7 as claimed: the name is the title label's value, whatever the value.
C7_Original == \A i \in Entries : HasTitle(i) => AppOf(i).name = TitleOf(i)

\* C7 as amended: the name is the title label's value when that value is not
\* the empty string, whatever RepositoryInfo's name; with an empty title the
\* name is RepositoryInfo's name or the raw name.
C7_TitleLabel ==
  \A i \in Entries :
     HasTitle(i) =>
        AppOf(i).name = (IF TitleOf(i) # <<>> THEN TitleOf(i)
                         ELSE IF Truthy(task[i].repoInfo.name) THEN task[i].repoInfo.name
                         ELSE names[i])

\* C7's case: a title label beside a RepositoryInfo that has a name.
C7_Witness ==
  \E i \in Entries :
     HasTitle(i) /\ TitleOf(i) = LABEL_TITLE /\ task[i].repoInfo.name = INFO_NAME

\* C8: an exception that reaches the callback's catch leaves the promise
\* fulfilled with the minimal record (raw name, raw location, the
\* "unavailable" description), and with null only if the location cannot be
\* built from the raw name.
C8_CaughtMinimal ==
  \A i \in Entries :
     /\ task[i].pc # "rejected"
     /\ Caught(i) =>
          IF AppLocationCreate(names[i]).ok
          THEN /\ AppOf(i) # NULL
               /\ AppOf(i).name = names[i]
               /\ AppOf(i).location = LocationOf(names[i])
               /\ AppOf(i).description = INFO_UNAVAILABLE
          ELSE AppOf(i) = NULL

\* C8's case: getManifest threw (the token endpoint answered without a token).
C8_Witness ==
  \E i \in Entries : Caught(i) /\ task[i].err = NoTokenError /\ AppOf(i) # NULL

Records == IF result = NONE THEN <<>> ELSE result.value
Occurrences(s, x) == Cardinality({k \in 1..Len(s) : s[k] = x})
LocationsOf(s) == [k \in 1..Len(s) |-> s[k].location.value]

\* C9 as claimed: no two records of the output have the same location, and
\* every record's location is a listed name.
C9_Original ==
  /\ \A k, l \in 1..Len(Records) :
        Records[k].location = Records[l].location => k = l
  /\ \A k \in 1..Len(Records) : Includes(names, Records[k].location.value)

\* C9 as amended: the output holds at most one record per entry of the
\* listing (a name listed n times has at most n records), every record's
\* location is a listed name, and no two records have the same location when
\* no name is listed twice.
C9_OnePerEntry ==
  /\ Len(Records) <= Len(names)
  /\ \A k \in 1..Len(Records) :
        /\ Includes(names, Records[k].location.value)
        /\ Occurrences(LocationsOf(Records), Records[k].location.value)
             <= Occurrences(names, Records[k].location.value)

\* C9's case: findAll has returned a record for each of two listed names.
C9_Witness ==
  /\ Returned /\ Len(Records) = 2 /\ Len(names) = 2
  /\ names[1] # names[2]

\* C10: the records come in the order of the listing, omitted repositories
\* left out, whatever order the callbacks settled in.
C10_ListingOrder ==
  Returned =>
    LET kept == {k \in Entries : AppOf(k) # NULL}
        rank(k) == Cardinality({j \in kept : j <= k})
    IN /\ Len(Records) = Cardinality(kept)
       /\ \A k \in kept : Records[rank(k)] = AppOf(k)

\* C10's case: a callback settled before one listed earlier and both have a
\* record in the output.
C10_Witness ==
  /\ Returned /\ overtook
  /\ Len(Records) = 2 /\ Records[1] # Records[2]

\* What a callback has reached, whatever requests it took to get there.
Outcome(t) == [t EXCEPT !.log = <<>>, !.answer = ""]
\* The frame as it was at getManifest's unauthenticated request, seen from
\* the authenticated retry (two requests later, the token at hand).
BeforeToken(t) ==
  [t EXCEPT !.pc = "manifest", !.token = UNDEFINED,
            !.log = SubSeq(t.log, 1, Len(t.log) - 2)]
OkAnswers(answers) == {resp \in answers : resp.status = "ok"}

\* C11: when the authenticated retry of the manifest request succeeds after
\* a 401, the callback goes on exactly as it would have if the
\* unauthenticated request had succeeded with the same manifest: the same
\* record when the manifest decides it, the same blob request otherwise.
C11_RetrySameAsDirect ==
  [][\A i \in Entries : \A resp \in OkAnswers(AllBodies.manifest) :
       (task[i].pc = "mAuth"
          /\ task'[i] = Heard(OnManifestAuth(task[i], names[i], resp), resp))
         => Outcome(task'[i]) = Outcome(OnManifest(BeforeToken(task[i]), names[i], resp))]_vars

\* C11's case: a record built from the labels after the manifest request was
\* first refused with 401 and then succeeded with the token.
C11_Witness ==
  \E i \in Entries :
     /\ Done(i)
     /\ task[i].log = <<"info", "tags", "tags", "manifest", "token", "manifest+token", "blob">>
     /\ task[i].err = NONE
     /\ AppOf(i).name = LABEL_TITLE

RECURSIVE Flatten(_)
\* The results of the pages, one page after the other.
Flatten(bodies) ==
  IF bodies = <<>> THEN <<>> ELSE Head(bodies).results \o Flatten(Tail(bodies))
\* The listing has come to its end: the last page answered had a null next.
ListingComplete == served # <<>> /\ served[Len(served)].next = 0

\* C12: while the listing is fetched, exactly one page request is
\* outstanding, the first URL is the namespace's and every later URL is the
\* next value of the page before; when a page answers with a null next, what
\* findAll receives is the results of all pages, in page order, each name
\* prefixed with the namespace.
C12_Pagination ==
  /\ phase = "listing" =>
        /\ Len(pages) = Len(served) + 1
        /\ pages[1] = 1
        /\ \A k \in 1..Len(served) : pages[k + 1] = served[k].next
        /\ nextUrl = pages[Len(pages)]
        /\ repositories = Flatten(served)
  /\ (phase = "resolving" /\ ListingComplete) =>
        /\ Len(pages) = Len(served)
        /\ \A k \in 1..(Len(served) - 1) : pages[k + 1] = served[k].next
        /\ names = FullNames(Flatten(served))
        /\ \A k \in 1..Len(names) :
             names[k] = DOCKER_HUB_NAMESPACE \o <<"/">> \o Flatten(served)[k].name

\* C12's case: two pages, each with one repository, the second ending the
\* listing.
C12_Witness ==
  /\ phase = "resolving"
  /\ ListingComplete
  /\ Len(served) = 2
  /\ Len(served[1].results) = 1 /\ Len(served[2].results) = 1
  /\ Len(names) = 2

\* The callbacks whose info request was answered with a repository.
WithInfo == {i \in Entries : Len(task[i].log) > 1}

\* C13 as claimed: when the listing succeeds with at least one name, findAll's
\* result is never empty, whatever the per-repository requests answer.
C13_Original ==
  (Returned /\ ~ListingFailed /\ Len(names) > 0) => result.value # <<>>

\* C13 as amended: when the listing succeeds, findAll's result is empty only
\* if the info request of every listed name failed (or no name was listed);
\* a failure of the tags, manifest, token or blob requests never removes a
\* repository: the result has one record for each repository whose info
\* request succeeded.
C13_EmptyOnlyWithoutInfo ==
  (Returned /\ ~ListingFailed) =>
     /\ result.value = <<>> => \A i \in Entries : task[i].log = <<"info">>
     /\ \A i \in WithInfo : AppOf(i) # NULL
     /\ Len(result.value) = Cardinality(WithInfo)

\* C13's case: the listing succeeded with two names and the result is empty.
C13_Witness ==
  /\ Returned /\ ~ListingFailed
  /\ Len(names) = 2
  /\ result.value = <<>>

\* The continuation of a callback suspended at t.pc, run on the answer resp.
StepOf(t, repoName, resp) ==
  CASE t.pc = "info" -> OnInfo(t, repoName, resp)
    [] t.pc = "infoTags" -> OnInfoTags(t, repoName, resp)
    [] t.pc = "mTags" -> OnManifestTags(t, repoName, resp)
    [] t.pc = "manifest" -> OnManifest(t, repoName, resp)
    [] t.pc = "m404Tags" -> OnManifest404Tags(t, repoName, resp)
    [] t.pc = "mToken" -> OnManifestToken(t, repoName, resp)
    [] t.pc = "mAuth" -> OnManifestAuth(t, repoName, resp)
    [] t.pc = "blob" -> OnBlob(t, repoName, resp)
    [] t.pc = "bToken" -> OnBlobToken(t, repoName, resp)
    [] t.pc = "bAuth" -> OnBlobAuth(t, repoName, resp)
\* Callback i takes the step that the answer resp makes it take.
Answered(i, resp) ==
  /\ ~Settled(task[i])
  /\ task'[i] = Heard(StepOf(task[i], names[i], resp), resp)
NotFound == Failed("404")
NoTags == Ok(TagsBody(<<>>))
\* The callback is in a catch that ends in a throw, or in findAll's catch.
OnExceptionPath(t) == t.err # NONE \/ t.pc = "m404Tags"
\* The four endpoints a resolution asks, by the await that asks them.
AtEndpoint(t) ==
  t.pc \in {"info", "infoTags", "mTags", "m404Tags", "manifest", "mAuth", "blob", "bAuth"}

\* C14 as claimed: a 404 from the info, tags, manifest or blob endpoint, or an
\* empty tag list, never puts the callback on the exception path.
C14_Original ==
  [][\A i \in Entries :
       /\ (AtEndpoint(task[i]) /\ Answered(i, NotFound)) => ~OnExceptionPath(task'[i])
       /\ (task[i].pc \in {"infoTags", "mTags"} /\ Answered(i, NoTags))
            => ~OnExceptionPath(task'[i])]_vars

\* C14 as amended: a 404 on the info request omits the repository; a 404 or
\* an empty list on the tag lookup of getRepositoryInfo or getManifest gives
\* the RepositoryInfo-only record; none of them raises an error.  A 404 on
\* the manifest request makes getManifest look the tags up and throw, and a
\* 404 on the authenticated manifest retry or on a blob request is thrown as
\* it is: these take findAll's catch and give the minimal record.
C14_SoftMiss ==
  [][\A i \in Entries :
       /\ (task[i].pc = "info" /\ Answered(i, NotFound))
            => Done(i)' /\ task'[i].err = NONE /\ task'[i].app = NULL
       /\ \A resp \in {NotFound, NoTags} :
            (task[i].pc \in {"infoTags", "mTags"} /\ Answered(i, resp))
              => /\ Done(i)' /\ task'[i].err = NONE
                 /\ task'[i].app = BasicApp(names[i], task'[i].repoInfo, LocationOf(names[i]))
       /\ (task[i].pc = "manifest" /\ Answered(i, NotFound))
            => task'[i].pc = "m404Tags" /\ task'[i].err = NONE
       /\ \A resp \in AllBodies.tags :
            (task[i].pc = "m404Tags" /\ Answered(i, resp))
              => /\ Done(i)' /\ task'[i].err.message = "Tag not found"
                 /\ task'[i].app = MinimalApp(names[i], LocationOf(names[i]))
       /\ (task[i].pc \in {"mAuth", "blob", "bAuth"} /\ Answered(i, NotFound))
            => /\ Done(i)' /\ task'[i].err # NONE
               /\ task'[i].app = MinimalApp(names[i], LocationOf(names[i]))]_vars

\* C14's case: getManifest's tag lookup failed and the callback returned the
\* RepositoryInfo-only record without an error.
C14_Witness ==
  \E i \in Entries :
     /\ Done(i)
     /\ task[i].log = <<"info", "tags", "tags">>
     /\ task[i].answer = "failed"
     /\ task[i].err = NONE
     /\ AppOf(i) # NULL

\* C15: findAll returns only when the callback of every listed name has
\* settled and Promise.all holds the value of each; as long as one callback
\* is still suspended findAll has not returned, whatever the others ended
\* in; a callback goes on from await to await until it settles, and after
\* the return no callback takes a step any more.
C15_FanIn ==
  [][/\ phase' = "joined" =>
          /\ Len(task') = Len(names')
          /\ \A i \in 1..Len(task') : task'[i].pc = "done" /\ apps'[i] = task'[i].app
     /\ (\E i \in 1..Len(task') : ~Settled(task'[i])) => phase' = "resolving"
     /\ \A i \in Entries : (Len(task') = Len(task) /\ Settled(task[i])) => task'[i] = task[i]
     /\ Returned => task' = task /\ apps' = apps /\ result' = result]_vars

\* C15's case: findAll has returned two records; the second callback had
\* thrown and settled while the first one was still suspended.
C15_Witness ==
  /\ Returned /\ overtook
  /\ Len(task) = 2
  /\ Caught(2) /\ task[1].err = NONE
  /\ Len(result.value) = 2

\* A string with no character but white space (the empty string is one).
Blank(s) == \A k \in 1..Len(s) : s[k] = " "

\* C16: AppLocation.create throws "App location cannot be empty." on the
\* empty string and on a string of white space only (and on undefined); on
\* any other string it returns a location whose value is that string,
\* unchanged, white space at its ends included; no location it returns has
\* an empty or blank value.
C16_LocationNeverBlank ==
  appLocation # NONE =>
    LET s == appLocation.location
        o == appLocation.outcome
    IN IF s = UNDEFINED \/ Blank(s)
       THEN ~o.ok /\ o.error = LOCATION_EMPTY
       ELSE /\ o.ok
            /\ o.value.value = s
            /\ Len(o.value.value) > 0 /\ ~Blank(o.value.value)

\* C16's case: a string of white space only was rejected.
C16_Witness ==
  /\ appLocation # NONE
  /\ appLocation.location = <<" ", " ">>
  /\ ~appLocation.outcome.ok

\* C17: whatever path built it (zero tags, no manifest, no digest, no config,
\* labels, catch), a record's location is the AppLocation of the name the
\* listing gave for its callback, the namespace and the listed repository
\* name, and so is the location of the record findAll returns for it and of
\* the DTO in the response.
C17_LocationIsListedName ==
  /\ \A i \in Entries :
       (Done(i) /\ AppOf(i) # NULL) =>
          /\ AppOf(i).location = [value |-> names[i]]
          /\ names[i] = DOCKER_HUB_NAMESPACE \o <<"/">> \o repositories[i].name
  /\ (result # NONE /\ Len(result.value) = 1) => result.value[1].location.value = names[1]
  /\ (http # NONE /\ Len(http.body) = 1) => http.body[1].location = names[1]

\* C17's case: the response holds a record built from labels, whose title
\* differs from the listed name, as does RepositoryInfo's name.
C17_Witness ==
  /\ http # NONE /\ Len(http.body) = 1
  /\ http.body[1].name = LABEL_TITLE
  /\ task[1].repoInfo.name = INFO_NAME
  /\ http.body[1].location = names[1]

\* The step of the resolution a request belongs to (0: a tag lookup or a
\* token request, which serve the step they are made in).
StepRank(req) ==
  CASE req = "info" -> 1
    [] req \in {"manifest", "manifest+token"} -> 2
    [] req \in {"blob", "blob+token"} -> 3
    [] OTHER -> 0
InGetManifest(t) == t.pc \in {"mTags", "manifest", "m404Tags", "mToken", "mAuth"}
InGetConfig(t) == t.pc \in {"blob", "bToken", "bAuth"}
HasInfoWithTags(t) ==
  /\ t.repoInfo # NULL
  /\ t.repoInfo.has_tags /\ Len(t.repoInfo.available_tags) > 0
HasDigest(t) ==
  /\ t.manifest # NONE /\ t.manifest # NULL
  /\ t.manifest.config # NULL /\ Truthy(t.manifest.config.digest)

\* A callback's requests come in the order info, manifest, blob; it is inside
\* getManifest only with a RepositoryInfo that reports tags, and inside
\* getConfig only with, in addition, a manifest that has a config digest.
C18_Order ==
  \A i \in Entries :
     LET t == task[i]
     IN /\ t.log[1] = "info"
        /\ \A k, l \in 1..Len(t.log) :
             (k < l /\ StepRank(t.log[l]) > 0) => StepRank(t.log[k]) <= StepRank(t.log[l])
        /\ \A k \in 2..Len(t.log) : t.log[k] # "info"
        /\ InGetManifest(t) => HasInfoWithTags(t)
        /\ InGetConfig(t) => HasInfoWithTags(t) /\ HasDigest(t)
        /\ (\E k \in 1..Len(t.log) : StepRank(t.log[k]) = 3)
             => \E k \in 1..Len(t.log) : StepRank(t.log[k]) = 2
\* Once a callback has returned a record or null it sends no request.
C18_Stop ==
  \A i \in Entries :
     (Len(task') = Len(task) /\ Settled(task[i])) => task'[i].log = task[i].log

\* C18: within one resolution the steps run in the order info, manifest,
\* config, each only if the one before succeeded, and nothing is requested
\* once the record or the omission is decided.
C18_StepsInOrder == [](C18_Order) /\ [][C18_Stop]_vars

\* C18's case: a resolution that went through all three steps and is done.
C18_Witness ==
  \E i \in Entries :
     /\ Done(i)
     /\ task[i].log = <<"info", "tags", "tags", "manifest", "blob">>
     /\ task[i].err = NONE
     /\ task[i].config # NULL

\* How many of a callback's requests went to one of the endpoints reqs.
CountOf(log, reqs) == Cardinality({k \in 1..Len(log) : log[k] \in reqs})
\* The authenticated request auth appears in log at most once, and then right
\* after a token request that came right after the unauthenticated request.
RetriedOnce(log, plain, auth) ==
  /\ CountOf(log, {plain}) <= 1
  /\ CountOf(log, {auth}) <= 1
  /\ \A k \in 1..Len(log) :
       log[k] = auth => k > 2 /\ log[k - 1] = "token" /\ log[k - 2] = plain
C19_AtMostTwo ==
  \A i \in Entries :
     /\ RetriedOnce(task[i].log, "manifest", "manifest+token")
     /\ RetriedOnce(task[i].log, "blob", "blob+token")
     /\ CountOf(task[i].log, {"manifest", "manifest+token"}) <= 2
     /\ CountOf(task[i].log, {"blob", "blob+token"}) <= 2
     /\ CountOf(task[i].log, {"token"}) <= 2
\* The unauthenticated request leads to a token request exactly when it is
\* answered 401; a token leads to the one authenticated retry; the retry's
\* failure, a second 401 included, is thrown and ends the callback.
C19_Policy ==
  \A i \in Entries :
     /\ \A resp \in AllBodies.manifest :
          /\ (task[i].pc = "manifest" /\ Answered(i, resp))
               => (task'[i].pc = "mToken" <=> resp.status = "401")
          /\ (task[i].pc = "mAuth" /\ Answered(i, resp) /\ resp.status # "ok")
               => Done(i)' /\ task'[i].err # NONE /\ task'[i].log = task[i].log
     /\ \A resp \in AllBodies.blob :
          /\ (task[i].pc = "blob" /\ Answered(i, resp))
               => (task'[i].pc = "bToken" <=> resp.status = "401")
          /\ (task[i].pc = "bAuth" /\ Answered(i, resp) /\ resp.status # "ok")
               => Done(i)' /\ task'[i].err # NONE /\ task'[i].log = task[i].log
     /\ \A resp \in AllBodies.token :
          /\ (task[i].pc = "mToken" /\ Answered(i, resp))
               => (task'[i].pc = "mAuth" <=> GetDockerHubAuthToken(resp).ok)
          /\ (task[i].pc = "bToken" /\ Answered(i, resp))
               => (task'[i].pc = "bAuth" <=> GetDockerHubAuthToken(resp).ok)

\* C19: getManifest and getConfig send the unauthenticated request first,
\* ask for a token only when it is answered 401, retry once with the token
\* and throw when the retry fails: at most two requests per call go to the
\* manifest endpoint, and at most two to the blob endpoint.
C19_RetryOnce == [](C19_AtMostTwo) /\ [][C19_Policy]_vars

\* C19's case: the manifest request was answered 401, the retry with the
\* token failed and the callback ended in the catch without a third request.
C19_Witness ==
  \E i \in Entries :
     /\ Caught(i)
     /\ task[i].log = <<"info", "tags", "tags", "manifest", "token", "manifest+token">>
     /\ task[i].answer = "failed"

\* A token is at hand only between a call's token request and the end of
\* that call: while its authenticated retry is outstanding.  A bearer request
\* comes right after a token request, itself right after the call's
\* unauthenticated request.
C20_TokenScope ==
  \A i \in Entries :
     LET t == task[i]
     IN /\ t.pc \notin {"mAuth", "bAuth"} => t.token = UNDEFINED
        /\ t.pc \in {"mAuth", "bAuth"} => Truthy(t.token)
        /\ \A k \in 1..Len(t.log) :
             /\ t.log[k] = "manifest+token"
                  => k > 2 /\ t.log[k - 1] = "token" /\ t.log[k - 2] = "manifest"
             /\ t.log[k] = "blob+token"
                  => k > 2 /\ t.log[k - 1] = "token" /\ t.log[k - 2] = "blob"
             /\ t.log[k] = "token"
                  => k > 1 /\ t.log[k - 1] \in {"manifest", "blob"}
\* A token request is sent only on a 401 of the call's unauthenticated
\* request, and the bearer request carries the token that request returned.
C20_OwnToken ==
  \A i \in Entries :
     /\ (Len(task') = Len(task) /\ task'[i].pc \in {"mToken", "bToken"}
           /\ task'[i].pc # task[i].pc)
          => task[i].pc = (IF task'[i].pc = "mToken" THEN "manifest" ELSE "blob")
     /\ \A resp \in AllBodies.manifest :
          (task[i].pc = "manifest" /\ Answered(i, resp) /\ task'[i].pc = "mToken")
             => resp.status = "401"
     /\ \A resp \in AllBodies.blob :
          (task[i].pc = "blob" /\ Answered(i, resp) /\ task'[i].pc = "bToken")
             => resp.status = "401"
     /\ \A resp \in AllBodies.token :
          (task[i].pc \in {"mToken", "bToken"} /\ Answered(i, resp)
             /\ task'[i].pc \in {"mAuth", "bAuth"})
             => /\ resp.status = "ok"
                /\ task'[i].token = resp.data.token
                /\ task[i].token = UNDEFINED

\* C20: no pull token is kept or used twice: each bearer request follows its
\* own token request of the same call, a token is asked for only after that
\* call's 401, and the token of the manifest fetch is gone when the blob
\* fetch starts.
C20_NoTokenReuse == [](C20_TokenScope) /\ [][C20_OwnToken]_vars

\* C20's case: both the manifest and the blob fetch needed a token; the blob
\* retry is outstanding with the token of the second token request.
C20_Witness ==
  \E i \in Entries :
     /\ task[i].pc = "bAuth"
     /\ task[i].log = <<"info", "tags", "tags", "manifest", "token", "manifest+token",
                        "blob", "token", "blob+token">>
     /\ task[i].token = TOKEN_2

\* C21: when the unauthenticated manifest request for the selected tag is
\* answered 404, getManifest lists the tags and throws an error that names
\* that tag and the tags just listed; it does not return null, and the
\* callback ends in its catch with the minimal record, not with the
\* RepositoryInfo-only one.
C21_MissingTagThrows ==
  [][\A i \in Entries :
       /\ (task[i].pc = "manifest" /\ Answered(i, NotFound))
            => /\ task'[i].pc = "m404Tags"
               /\ task'[i].tag = task[i].tag
               /\ task'[i].app = NONE /\ task'[i].manifest = NONE
       /\ \A resp \in AllBodies.tags :
            (task[i].pc = "m404Tags" /\ Answered(i, resp))
              => /\ Done(i)'
                 /\ task'[i].err # NONE
                 /\ task'[i].err.message = "Tag not found"
                 /\ task'[i].err.tag = task[i].tag
                 /\ Includes(task[i].tags, task[i].tag)
                 /\ task'[i].err.available =
                      (IF resp.status = "ok"
                       THEN [k \in 1..Len(resp.data.results) |-> resp.data.results[k].name]
                       ELSE <<>>)
                 /\ task'[i].app = MinimalApp(names[i], LocationOf(names[i]))
                 /\ task'[i].app.description # NO_DESCRIPTION
                 /\ task'[i].app.description # INFO_DESCRIPTION]_vars

\* C21's case: the manifest of "latest" was answered 404, the tags listed
\* for the error were v2 and v1, and the callback returned the minimal record.
C21_Witness ==
  \E i \in Entries :
     /\ Caught(i)
     /\ task[i].log = <<"info", "tags", "tags", "manifest", "tags">>
     /\ task[i].err.tag = "latest"
     /\ task[i].err.available = <<"v2", "v1">>
     /\ AppOf(i).description = INFO_UNAVAILABLE

\* getConfig has returned a value only if the blob request answered last
\* succeeded.
C22_ValueOnlyFromBlob ==
  \A i \in Entries :
     task[i].config # NONE =>
        /\ task[i].answer = "ok"
        /\ task[i].log[Len(task[i].log)] \in {"blob", "blob+token"}
\* Every failure inside getConfig but the first 401 is thrown to findAll.
C22_Thrown ==
  \A i \in Entries :
     /\ \A resp \in AllBodies.blob :
          (task[i].pc \in {"blob", "bAuth"} /\ Answered(i, resp)) =>
             IF resp.status = "ok"
             THEN task'[i].config = resp.data /\ task'[i].err = NONE
             ELSE IF task[i].pc = "blob" /\ resp.status = "401"
             THEN task'[i].pc = "bToken" /\ task'[i].config = NONE /\ task'[i].err = NONE
             ELSE /\ Done(i)' /\ task'[i].config = NONE
                  /\ task'[i].err # NONE
                  /\ task'[i].err.from = task[i].log[Len(task[i].log)]
     /\ \A resp \in AllBodies.token :
          (task[i].pc = "bToken" /\ Answered(i, resp)
             /\ (resp.status # "ok" \/ ~Truthy(resp.data.token)))
            => /\ Done(i)' /\ task'[i].config = NONE
               /\ task'[i].err # NONE
               /\ task'[i].err.from = "token"

\* C22: getConfig throws on every failure of the blob request but a first
\* 401, on every failure of the token request and of the retry with the
\* token, and returns a value only when a blob request succeeded.
C22_ConfigNeverSwallows == [](C22_ValueOnlyFromBlob) /\ [][C22_Thrown]_vars

\* C22's case: the blob request was answered 401, the retry with the token
\* failed, and the callback ended in its catch with no config.
C22_Witness ==
  \E i \in Entries :
     /\ Done(i)
     /\ task[i].log[Len(task[i].log)] = "blob+token"
     /\ task[i].answer = "failed"
     /\ task[i].config = NONE
     /\ task[i].err # NONE

\* C23: when getManifest, called without a tag, finds no tag listed, it
\* returns null at once: the callback sends no request to the manifest or
\* token endpoint and returns the RepositoryInfo-only record.
C23_NoTagNoRequest ==
  [][\A i \in Entries :
       (task[i].pc = "mTags" /\ Answered(i, NoTags))
         => /\ task'[i].manifest = NULL
            /\ task'[i].log = task[i].log
            /\ \A k \in 1..Len(task'[i].log) :
                 task'[i].log[k] \notin {"manifest", "token", "manifest+token"}
            /\ Done(i)' /\ task'[i].err = NONE]_vars

\* C23's case: getManifest's tag lookup was answered with an empty list and
\* the callback is done with a null manifest.
C23_Witness ==
  \E i \in Entries :
     /\ Done(i)
     /\ task[i].log = <<"info", "tags", "tags">>
     /\ task[i].answer = "ok"
     /\ task[i].manifest = NULL

\* C24: getRepositoryTags gives [] on a 404 and on every other failure; a
\* callback whose tag lookup fails, in getRepositoryInfo or in getManifest,
\* ends as it does on an empty tag list: no exception, no manifest request,
\* the RepositoryInfo-only record.
C24_TagFailureAsNoTags ==
  [][\A i \in Entries : \A s \in Failures :
       /\ GetRepositoryTags(Failed(s)) = <<>>
       /\ (task[i].pc \in {"infoTags", "mTags"} /\ Answered(i, Failed(s)))
            => /\ Done(i)' /\ task'[i].err = NONE
               /\ task'[i].log = task[i].log
               /\ task'[i].app = BasicApp(names[i], task'[i].repoInfo, LocationOf(names[i]))
               /\ task[i].pc = "infoTags" =>
                    ~task'[i].repoInfo.has_tags /\ task'[i].repoInfo.available_tags = <<>>
               /\ Outcome(task'[i]) = Outcome(StepOf(task[i], names[i], NoTags))]_vars

\* C24's case: getRepositoryInfo's tag lookup failed and the callback
\* returned the RepositoryInfo-only record.
C24_Witness ==
  \E i \in Entries :
     /\ Done(i)
     /\ task[i].log = <<"info", "tags">>
     /\ task[i].answer = "failed"
     /\ task[i].err = NONE
     /\ AppOf(i).name = INFO_NAME

\* C25: while getManifest is asking for a manifest, the tag it asks for is a
\* tag of the listing it fetched: "latest" when the listing holds it at any
\* position, otherwise the listing's first tag, not its least one.
C25_TagSelection ==
  \A i \in Entries :
     task[i].pc \in {"manifest", "mToken", "mAuth", "m404Tags"} =>
        LET tags == task[i].tags
            tag == task[i].tag
        IN /\ Len(tags) > 0
           /\ \E k \in 1..Len(tags) : tags[k] = tag
           /\ (\E k \in 1..Len(tags) : tags[k] = "latest") => tag = "latest"
           /\ tag # "latest" => tag = tags[1]
           /\ tags = <<"v2", "latest">> => tag = "latest"
           /\ tags = <<"v2", "v1">> => tag = "v2"

\* C25's case: the listing was v2, v1 and the manifest of v2 is asked for.
C25_Witness ==
  \E i \in Entries :
     /\ task[i].pc = "manifest"
     /\ task[i].tags = <<"v2", "v1">>
     /\ task[i].tag = "v2"

\* The token endpoint's successful answers that carry no token.
Tokenless == {resp \in OkAnswers(AllBodies.token) : ~Truthy(resp.data.token)}

\* C26: when the token endpoint answers successfully without a token,
\* getDockerHubAuthToken throws "No token received ...": the request with
\* the bearer token is not sent, and the error leaves getManifest or
\* getConfig and ends the callback in findAll's catch.
C26_MissingTokenThrows ==
  [][\A i \in Entries : \A resp \in Tokenless :
       (task[i].pc \in {"mToken", "bToken"} /\ Answered(i, resp))
         => /\ Done(i)'
            /\ task'[i].err = NoTokenError
            /\ task'[i].log = task[i].log
            /\ task'[i].log[Len(task'[i].log)] = "token"
            /\ task'[i].manifest = NONE /\ task'[i].config = NONE
            /\ task'[i].app = MinimalApp(names[i], LocationOf(names[i]))]_vars

\* C26's case: getConfig's token request was answered without a token and
\* the callback ended in the catch.
C26_Witness ==
  \E i \in Entries :
     /\ Done(i)
     /\ task[i].log = <<"info", "tags", "tags", "manifest", "blob", "token">>
     /\ task[i].answer = "ok"
     /\ task[i].err = NoTokenError

\* A string that is there and has at least one character.
NonEmpty(s) == s # UNDEFINED /\ Len(s) > 0

\* C27: every record findAll returns, and every record a callback returns,
\* has a name, a description, a pictureUrl and a location value that are not
\* empty, also when a label or a RepositoryInfo field is missing or is the
\* empty string.
C27_FieldsNonEmpty ==
  /\ \A i \in Entries :
       (Done(i) /\ AppOf(i) # NULL) =>
          /\ NonEmpty(AppOf(i).name) /\ NonEmpty(AppOf(i).description)
          /\ NonEmpty(AppOf(i).pictureUrl) /\ NonEmpty(AppOf(i).location.value)
  /\ \A k \in 1..Len(Records) :
       /\ NonEmpty(Records[k].name) /\ NonEmpty(Records[k].description)
       /\ NonEmpty(Records[k].pictureUrl) /\ NonEmpty(Records[k].location.value)

\* C27's case: findAll returned a record built from labels whose title,
\* description and picture are empty strings, for a repository whose
\* RepositoryInfo has neither name nor description.
C27_Witness ==
  /\ Returned /\ Len(Records) = 1
  /\ task[1].config # NONE /\ task[1].config # NULL
  /\ task[1].config.config # NULL /\ task[1].config.config.Labels # NULL
  /\ task[1].config.config.Labels = [title |-> <<>>, description |-> <<>>, picture |-> <<>>]
  /\ task[1].repoInfo.name = UNDEFINED /\ task[1].repoInfo.description = UNDEFINED
  /\ Records[1].name = names[1]

C29_FromSecondListing ==
  \A i \in Entries :
     task[i].pc = "manifest" =>
        /\ Len(task[i].repoInfo.available_tags) > 0
        /\ Includes(task[i].tags, task[i].tag)
        /\ (task[i].repoInfo.available_tags = <<"v2", "latest">>
              /\ task[i].tags = <<"v2", "v1">>) => task[i].tag = "v2"
        /\ (task[i].repoInfo.available_tags = <<"v2", "v1">>
              /\ task[i].tags = <<"v2", "latest">>) => task[i].tag = "latest"
\* The second listing empty or failed after a first one with tags: no
\* exception, no manifest request, the RepositoryInfo-only record.
C29_SecondEmpty ==
  \A i \in Entries : \A resp \in {NoTags} \cup {Failed(s) : s \in Failures} :
     (task[i].pc = "mTags" /\ Answered(i, resp))
       => /\ Len(task[i].repoInfo.available_tags) > 0
          /\ Done(i)' /\ task'[i].err = NONE
          /\ task'[i].log = task[i].log
          /\ task'[i].manifest = NULL
          /\ task'[i].app = BasicApp(names[i], task[i].repoInfo, LocationOf(names[i]))

\* C29: the tags are listed by getRepositoryInfo and again by getManifest;
\* when the second listing is empty or fails after a first one with tags the
\* callback returns the RepositoryInfo-only record without a manifest
\* request or an exception, and when both have tags the tag asked for is
\* selected from the second.
C29_TwoListings == [](C29_FromSecondListing) /\ [][C29_SecondEmpty]_vars

\* C29's case: the two listings differ and the manifest of the tag selected
\* from the second one is asked for.
C29_Witness ==
  \E i \in Entries :
     /\ task[i].pc = "manifest"
     /\ task[i].repoInfo.available_tags = <<"v2", "latest">>
     /\ task[i].tags = <<"v2", "v1">>
     /\ task[i].tag = "v2"

\* The page requests sent so far follow the chain from its first page, one
\* request per page and none twice.
C30_OnePerPage ==
  /\ Len(pages) <= MaxPages
  /\ \A k \in 1..Len(pages) : pages[k] = k
  /\ phase = "listing" => Len(pages) = Len(served) + 1
\* One step of the listing: the loop goes on exactly when a page answered
\* with a next link, with the one request for that link; it is left by a
\* page with a null next, every page of the chain requested once, or by a
\* failed request; once left, no page is requested.
C30_LoopStep ==
  /\ (phase = "listing" /\ phase' = "listing") =>
        /\ Len(served') = Len(served) + 1
        /\ served'[Len(served')].next # 0
        /\ pages' = Append(pages, served'[Len(served')].next)
  /\ (phase = "listing" /\ phase' # "listing") =>
        /\ pages' = pages
        /\ \/ /\ nextUrl' = 0
              /\ Len(served') = Len(pages)
              /\ \A k \in 1..Len(served') : (served'[k].next = 0 <=> k = Len(served'))
           \/ /\ nextUrl' = nextUrl /\ nextUrl # 0
              /\ served' = served
              /\ names' = <<>>
  /\ phase \notin {"idle", "listing"} => pages' = pages

\* C30: over a chain of next links that ends in null,
\* getRepositoriesFromDockerHub ends, having sent exactly one request per
\* page; it sends none after a page with a null next or after a failed
\* request, and the loop is left only by a null next or by a failed request.
C30_ListingTerminates ==
  /\ [](C30_OnePerPage)
  /\ [][C30_LoopStep]_vars
  /\ (phase = "listing" ~> phase # "listing")

\* C30's case: the listing ended at the null next of the last page of a
\* chain of MaxPages pages, each requested once.
C30_Witness ==
  /\ phase = "resolving"
  /\ nextUrl = 0
  /\ Len(pages) = MaxPages
  /\ Len(served) = MaxPages
  /\ names # <<>>

====
